---- MODULE Spec2Model ----
(***************************************************************************)
(* Agricultural Analytics Dashboard (app.py): a Streamlit script.  Every   *)
(* user interaction re-runs the script from the top; one run is a render.  *)
(*                                                                         *)
(* Units.  Every slider of the farmer form is a float slider with the      *)
(* default step 0.01, so every quantity is held in hundredths:             *)
(* 20 degrees C is 2000, pH 5.5 is 550, 1000 mm is 100000, moisture 0.6 is *)
(* 60.  The optimal ranges of CROP_CONDITIONS are held in the same units.  *)
(***************************************************************************)
EXTENDS Integers, Sequences, FiniteSets, TLC

VARIABLES
    CROP_CONDITIONS,  \* the module-level dict of app.py:10-47
    page,             \* value of the sidebar selectbox "Choose Model"
    selected_crop,    \* value of the selectbox "Select Crop Type"
    form,             \* values of the sliders of prediction_form
    sliders,          \* values of the sliders of market_prediction_form
    submitted,        \* the form's submit button was pressed for this run
    pc,               \* position of the script run; "idle" between runs
    farmer_df,        \* farmer dataset read by this run, or NoFrame
    market_df,        \* market dataset read by this run, or NoFrame
    X,                \* training feature columns, in frame order
    y_mean,           \* y.mean() of this run
    crop_info,        \* CROP_CONDITIONS[selected_crop] of this run, or NoProfile
    input_data,       \* the dict built on submit: sequence of <<column, value>>
    input_df,         \* the row handed to predict: sequence of <<column, value>>
    prediction,       \* model.predict(input_df)[0]
    exc,              \* class name of the exception in flight or handled
    out               \* elements rendered by the current/last run, in order

vars == <<CROP_CONDITIONS, page, selected_crop, form, sliders, submitted, pc, farmer_df,
          market_df, X, y_mean, crop_info, input_data, input_df, prediction,
          exc, out>>

\* exc when no exception was raised
NoException == "none"

\* a name not bound yet in this run
NoFrame == [columns |-> <<>>, rows |-> 0, y_mean |-> 0]

NoProfile == [unbound |-> TRUE]

NoForm == [unbound |-> TRUE]

\* Faulty variant of the table: the soil pH range of Wheat is written (max, min)
CropConditionsTableSwapped ==
    [c \in {"Rice", "Wheat", "Corn", "Soybean"} |->
        [temp_range |-> <<2000, 3000>>,
         soil_ph |-> IF c = "Wheat" THEN <<700, 600>> ELSE <<600, 680>>,
         rainfall |-> <<45000, 70000>>, soil_moisture |-> <<50, 70>>,
         fertilizer_npk |-> "N: 20kg/ha, P: 60kg/ha, K: 40kg/ha",
         growing_period |-> "100-120 days",
         water_requirement |-> "450-700mm"]]

(***************************************************************************)
(* Condition Table, app.py:10-47                                           *)
(***************************************************************************)
CropConditionsTable ==
    [Rice |->
        [temp_range |-> <<2000, 3500>>, soil_ph |-> <<550, 650>>,
         rainfall |-> <<100000, 200000>>, soil_moisture |-> <<60, 80>>,
         fertilizer_npk |-> "N: 120kg/ha, P: 60kg/ha, K: 60kg/ha",
         growing_period |-> "90-120 days",
         water_requirement |-> "1200-1600mm"],
     Wheat |->
        [temp_range |-> <<1500, 2500>>, soil_ph |-> <<600, 700>>,
         rainfall |-> <<60000, 110000>>, soil_moisture |-> <<50, 70>>,
         fertilizer_npk |-> "N: 100kg/ha, P: 50kg/ha, K: 50kg/ha",
         growing_period |-> "120-150 days",
         water_requirement |-> "450-650mm"],
     Corn |->
        [temp_range |-> <<1800, 3200>>, soil_ph |-> <<580, 700>>,
         rainfall |-> <<50000, 80000>>, soil_moisture |-> <<50, 75>>,
         fertilizer_npk |-> "N: 150kg/ha, P: 75kg/ha, K: 75kg/ha",
         growing_period |-> "90-120 days",
         water_requirement |-> "500-800mm"],
     Soybean |->
        [temp_range |-> <<2000, 3000>>, soil_ph |-> <<600, 680>>,
         rainfall |-> <<45000, 70000>>, soil_moisture |-> <<50, 70>>,
         fertilizer_npk |-> "N: 20kg/ha, P: 60kg/ha, K: 40kg/ha",
         growing_period |-> "100-120 days",
         water_requirement |-> "450-700mm"]]

\* list(CROP_CONDITIONS.keys()): the dict's insertion order
CropKeys == <<"Rice", "Wheat", "Corn", "Soybean">>

SupportedCrops == {CropKeys[i] : i \in 1..Len(CropKeys)}

Pages == <<"Farmer Advisor", "Market Researcher">>

(***************************************************************************)
(* Sequence helpers                                                        *)
(***************************************************************************)
Range(s) == {s[i] : i \in 1..Len(s)}

Names(cols) == [i \in 1..Len(cols) |-> cols[i].name]

Keys(pairs) == [i \in 1..Len(pairs) |-> pairs[i][1]]

\* the value stored under key k in a dict held as a sequence of pairs
Value(pairs, k) == pairs[CHOOSE i \in 1..Len(pairs) : pairs[i][1] = k][2]

(***************************************************************************)
(* Datasets.  A frame is a sequence of columns in file order; an object    *)
(* column carries its distinct values in sorted order (the order in which  *)
(* get_dummies emits the indicator columns).                               *)
(***************************************************************************)
Num(n) == [name |-> n, dtype |-> "float64", cats |-> <<>>]

Obj(n, cs) == [name |-> n, dtype |-> "object", cats |-> cs]

AllCropsSorted == <<"Corn", "Rice", "Soybean", "Wheat">>

FarmerStandard ==
    [columns |-> <<Num("Farm_ID"), Num("Soil_pH"), Num("Soil_Moisture"),
                   Num("Temperature_C"), Num("Rainfall_mm"),
                   Obj("Crop_Type", AllCropsSorted),
                   Num("Fertilizer_Usage_kg"), Num("Pesticide_Usage_kg"),
                   Num("Crop_Yield_ton"), Num("Sustainability_Score")>>,
     rows |-> 3, y_mean |-> 5]

\* no Farm_ID column, and only two of the four crops occur in the file
FarmerTwoCrops ==
    [columns |-> <<Num("Temperature_C"), Num("Rainfall_mm"), Num("Soil_pH"),
                   Num("Soil_Moisture"), Obj("Crop_Type", <<"Rice", "Wheat">>),
                   Num("Fertilizer_Usage_kg"), Num("Pesticide_Usage_kg"),
                   Num("Sustainability_Score"), Num("Crop_Yield_ton")>>,
     rows |-> 2, y_mean |-> 4]

\* a second categorical column
FarmerSoilType ==
    [columns |-> <<Num("Farm_ID"), Num("Soil_pH"), Num("Soil_Moisture"),
                   Num("Temperature_C"), Num("Rainfall_mm"),
                   Obj("Crop_Type", AllCropsSorted),
                   Obj("Soil_Type", <<"Clay", "Sandy">>),
                   Num("Fertilizer_Usage_kg"), Num("Pesticide_Usage_kg"),
                   Num("Crop_Yield_ton"), Num("Sustainability_Score")>>,
     rows |-> 3, y_mean |-> 5]

\* a header line and no data rows: read_csv types every column as object
FarmerEmpty ==
    [columns |-> <<Obj("Farm_ID", <<>>), Obj("Soil_pH", <<>>),
                   Obj("Crop_Type", <<>>), Obj("Crop_Yield_ton", <<>>)>>,
     rows |-> 0, y_mean |-> 0]

\* the target column is missing from the file
FarmerNoTarget ==
    [columns |-> <<Num("Farm_ID"), Num("Soil_pH"), Num("Temperature_C"),
                   Obj("Crop_Type", AllCropsSorted)>>,
     rows |-> 3, y_mean |-> 0]

FarmerDatasets ==
    {FarmerStandard, FarmerTwoCrops, FarmerSoilType, FarmerEmpty, FarmerNoTarget}

(***************************************************************************)
(* Feature preparation, app.py:87-102                                      *)
(***************************************************************************)
\* model_df.select_dtypes(include=['object']).columns
categorical_columns(columns) ==
    Names(SelectSeq(columns, LAMBDA c : c.dtype = "object"))

Column(columns, n) == columns[CHOOSE i \in 1..Len(columns) : columns[i].name = n]

\* pd.get_dummies(model_df, columns=[col], prefix=col): the column is dropped
\* and one indicator column per distinct value is appended, values sorted
get_dummies(columns, col, prefix) ==
    LET c == Column(columns, col)
    IN  SelectSeq(columns, LAMBDA d : d.name # col)
        \o [k \in 1..Len(c.cats) |->
               [name |-> prefix \o "_" \o c.cats[k], dtype |-> "bool", cats |-> <<>>]]

RECURSIVE EncodeCategoricals(_, _, _, _)
\* the loop of app.py:92-94 over cat[k..], skipping the column named skip
EncodeCategoricals(columns, cat, k, skip) ==
    IF k > Len(cat) THEN columns
    ELSE EncodeCategoricals(
             IF cat[k] # skip THEN get_dummies(columns, cat[k], cat[k]) ELSE columns,
             cat, k + 1, skip)

target_col == "Crop_Yield_ton"

FarmerModelDf(df) ==
    EncodeCategoricals(df.columns, categorical_columns(df.columns), 1, target_col)

\* app.py:98-101: X = model_df[feature_cols]
feature_cols(model_columns) ==
    LET id_cols == IF "Farm_ID" \in Range(Names(model_columns)) THEN {"Farm_ID"} ELSE {}
    IN  SelectSeq(model_columns, LAMBDA c : c.name \notin ({target_col} \cup id_cols))

(***************************************************************************)
(* Rendered elements                                                       *)
(***************************************************************************)
El(kind, section) == [kind |-> kind, section |-> section]

Kinds(elements) == {elements[i].kind : i \in 1..Len(elements)}

Sections(elements) == {elements[i].section : i \in 1..Len(elements)}

\* app.py:53 (outside the try block)
Title == <<El("title", "dashboard")>>

\* app.py:61-78
ModelInfo ==
    <<El("farmer_model_info", "dashboard"), El("market_model_info", "dashboard"),
      El("page_selectbox", "dashboard")>>

\* app.py:81-85
FarmerHeader == <<El("farmer_header", "dashboard"), El("sample_data", "dashboard")>>

(***************************************************************************)
(* The farmer form, app.py:132-184.  Slider values are sampled around the  *)
(* range ends of the four crops.                                           *)
(***************************************************************************)
TempValues == {0, 1499, 1500, 1999, 2000, 2500, 2501, 3500, 3501, 5000}

RainValues == {40000, 44999, 45000, 50000, 60000, 99999, 100000, 300000}

PhValues == {0, 549, 550, 580, 600, 650, 651, 700, 750}

\* slider defaults (value=...), app.py:140,146,153,159,168,174,181
FormDefaults(info) ==
    [temp |-> 2500, rainfall |-> info.rainfall[1], soil_ph |-> info.soil_ph[1],
     soil_moisture |-> info.soil_moisture[1], fertilizer |-> 10000,
     pesticide |-> 500, sustainability |-> 700]

\* the sliders that never select a block: left at their defaults, or all moved
RestValues(info) ==
    {[soil_moisture |-> info.soil_moisture[1], fertilizer |-> 10000,
      pesticide |-> 500, sustainability |-> 700],
     [soil_moisture |-> 100, fertilizer |-> 0, pesticide |-> 5000,
      sustainability |-> 1000]}

(***************************************************************************)
(* Input row, app.py:188-204                                               *)
(***************************************************************************)
\* Faulty variant: the comparison of app.py:200 inverted
CropDummiesInverted(crop) ==
    [i \in 1..Len(CropKeys) |->
        <<"Crop_Type_" \o CropKeys[i], IF CropKeys[i] # crop THEN 1 ELSE 0>>]

\* app.py:199-200
CropDummies(crop) ==
    [i \in 1..Len(CropKeys) |->
        <<"Crop_Type_" \o CropKeys[i], IF CropKeys[i] = crop THEN 1 ELSE 0>>]

\* app.py:188-200, in the dict's insertion order
BuildInputData(f, crop) ==
    << <<"Temperature_C", f.temp>>, <<"Rainfall_mm", f.rainfall>>,
       <<"Soil_pH", f.soil_ph>>, <<"Soil_Moisture", f.soil_moisture>>,
       <<"Fertilizer_Usage_kg", f.fertilizer>>,
       <<"Pesticide_Usage_kg", f.pesticide>>,
       <<"Sustainability_Score", f.sustainability>> >>
    \o CropDummies(crop)

\* input_df[X.columns] raises KeyError when a label of X is not a column
CanSelect(data, columns) == Range(columns) \subseteq Range(Keys(data))

\* Faulty variant: the columns of X are kept, in the dict's own order
SelectColumnsUnordered(data, columns) ==
    SelectSeq(data, LAMBDA pair : pair[1] \in Range(columns))

\* input_df[X.columns]: the columns of X, in X's order
SelectColumns(data, columns) ==
    [i \in 1..Len(columns) |-> <<columns[i], Value(data, columns[i])>>]

(***************************************************************************)
(* Recommendation selector, app.py:296-614                                 *)
(***************************************************************************)
\* Faulty variant: the range ends belong to the blocks (<= and >=)
TemperatureSectionInclusive(temp, crop, info) ==
    IF temp <= info.temp_range[1] THEN <<[kind |-> "low_temperature", section |-> "temperature"]>>
    ELSE IF temp >= info.temp_range[2]
         THEN <<[kind |-> "high_temperature", section |-> "temperature"]>>
         ELSE <<>>

\* Faulty variant: the planting advice of app.py:323 reads the range max
TemperatureSectionWaitsForMax(temp, crop, info) ==
    IF temp < info.temp_range[1]
    THEN <<[kind |-> "low_temperature", section |-> "temperature",
            shows |-> [temp |-> temp, selected_crop |-> crop,
                       temp_range_min |-> info.temp_range[2],
                       soil_moisture_min |-> info.soil_moisture[1]]]>>
    ELSE IF temp > info.temp_range[2]
         THEN <<[kind |-> "high_temperature", section |-> "temperature",
                 shows |-> [temp |-> temp, selected_crop |-> crop]]>>
         ELSE <<>>

\* app.py:297-399; shows holds the values the block's text interpolates
\* (app.py:303, 323, 332 and app.py:361)
TemperatureSection(temp, crop, info) ==
    IF temp < info.temp_range[1]
    THEN <<[kind |-> "low_temperature", section |-> "temperature",
            shows |-> [temp |-> temp, selected_crop |-> crop,
                       temp_range_min |-> info.temp_range[1],
                       soil_moisture_min |-> info.soil_moisture[1]]]>>
    ELSE IF temp > info.temp_range[2]
         THEN <<[kind |-> "high_temperature", section |-> "temperature",
                 shows |-> [temp |-> temp, selected_crop |-> crop]]>>
         ELSE <<>>

\* Faulty variant: the alkaline check reads the range min
SoilPhSectionWrongEnd(soil_ph, crop, info) ==
    IF soil_ph < info.soil_ph[1] THEN <<[kind |-> "soil_acidity", section |-> "soil_ph"]>>
    ELSE IF soil_ph > info.soil_ph[1]
         THEN <<[kind |-> "alkaline_soil", section |-> "soil_ph"]>>
         ELSE <<>>

\* Faulty variant: the crop lists of app.py:411 and app.py:453 exchanged
SoilPhSectionListsExchanged(soil_ph, crop, info) ==
    IF soil_ph < info.soil_ph[1]
    THEN <<[kind |-> "soil_acidity", section |-> "soil_ph",
            shows |-> [soil_ph |-> soil_ph, selected_crop |-> crop,
                       lime_kg_ha |-> IF crop \in {"Rice", "Soybean"} THEN 2000 ELSE 1500]]>>
    ELSE IF soil_ph > info.soil_ph[2]
         THEN <<[kind |-> "alkaline_soil", section |-> "soil_ph",
                 shows |-> [soil_ph |-> soil_ph, selected_crop |-> crop,
                            sulfur_kg_ha |-> IF crop \in {"Rice", "Corn"} THEN 300 ELSE 400]]>>
         ELSE <<>>

\* app.py:402-491; lime dose app.py:411, sulfur dose app.py:453
SoilPhSection(soil_ph, crop, info) ==
    IF soil_ph < info.soil_ph[1]
    THEN <<[kind |-> "soil_acidity", section |-> "soil_ph",
            shows |-> [soil_ph |-> soil_ph, selected_crop |-> crop,
                       lime_kg_ha |-> IF crop \in {"Rice", "Corn"} THEN 2000 ELSE 1500]]>>
    ELSE IF soil_ph > info.soil_ph[2]
         THEN <<[kind |-> "alkaline_soil", section |-> "soil_ph",
                 shows |-> [soil_ph |-> soil_ph, selected_crop |-> crop,
                            sulfur_kg_ha |-> IF crop \in {"Rice", "Soybean"} THEN 300 ELSE 400]]>>
         ELSE <<>>

\* Faulty variant: a symmetric block for rainfall above the range max
RainfallSectionWithExcess(rainfall, crop, info) ==
    IF rainfall < info.rainfall[1]
    THEN <<[kind |-> "rainfall_insufficient", section |-> "rainfall"]>>
    ELSE IF rainfall > info.rainfall[2]
         THEN <<[kind |-> "rainfall_excess", section |-> "rainfall"]>>
         ELSE <<>>

\* Faulty variant: the emitter spacing follows the pressure test of app.py:505
RainfallSectionByPressure(rainfall, crop, info) ==
    IF rainfall < info.rainfall[1]
    THEN <<[kind |-> "rainfall_insufficient", section |-> "rainfall",
            shows |-> [rainfall |-> rainfall, selected_crop |-> crop,
                       emitters |-> IF crop = "Rice" THEN "emitters every 30cm"
                                    ELSE "emitters every 45cm",
                       pressure |-> IF crop = "Rice" THEN "1.5-2.0 bar" ELSE "1.0-1.5 bar"]]>>
    ELSE <<>>

\* Faulty variant: rainfall equal to the range min counts as insufficient
RainfallSectionInclusive(rainfall, crop, info) ==
    IF rainfall <= info.rainfall[1]
    THEN <<[kind |-> "rainfall_insufficient", section |-> "rainfall",
            shows |-> [rainfall |-> rainfall, selected_crop |-> crop,
                       emitters |-> IF crop \in {"Rice", "Wheat"} THEN "emitters every 30cm"
                                    ELSE "emitters every 45cm",
                       pressure |-> IF crop = "Rice" THEN "1.5-2.0 bar" ELSE "1.0-1.5 bar"]]>>
    ELSE <<>>

\* app.py:494-528; emitter spacing app.py:500-503, pressure app.py:504-507
RainfallSection(rainfall, crop, info) ==
    IF rainfall < info.rainfall[1]
    THEN <<[kind |-> "rainfall_insufficient", section |-> "rainfall",
            shows |-> [rainfall |-> rainfall, selected_crop |-> crop,
                       emitters |-> IF crop \in {"Rice", "Wheat"} THEN "emitters every 30cm"
                                    ELSE "emitters every 45cm",
                       pressure |-> IF crop = "Rice" THEN "1.5-2.0 bar" ELSE "1.0-1.5 bar"]]>>
    ELSE <<>>

\* Faulty variant: the per-crop chain has no final else, so Soybean gets nothing
GrowthStageSectionNoDefault(crop, info) ==
    IF crop \in {"Rice", "Wheat", "Corn"}
    THEN <<[kind |-> "growth_stage_management", section |-> "growth_stage"]>>
    ELSE <<>>

\* app.py:531-573
GrowthStageSection(crop, info) == <<El("growth_stage_management", "growth_stage")>>

\* app.py:576-614
NutrientSection(crop) == <<El("nutrient_management_guide", "nutrient")>>

\* Faulty variant: the rainfall statement placed before the soil pH statement
RecommendationsReordered(f, crop, info) ==
    TemperatureSection(f.temp, crop, info) \o RainfallSection(f.rainfall, crop, info)
    \o SoilPhSection(f.soil_ph, crop, info) \o GrowthStageSection(crop, info)
    \o NutrientSection(crop)

\* app.py:296-614, in statement order
Recommendations(f, crop, info) ==
    TemperatureSection(f.temp, crop, info) \o SoilPhSection(f.soil_ph, crop, info)
    \o RainfallSection(f.rainfall, crop, info) \o GrowthStageSection(crop, info)
    \o NutrientSection(crop)

\* Faulty variant: a prediction equal to the mean counts as above it
OverallAssessmentInclusive(p, mean) ==
    <<[kind |-> "overall_assessment", section |-> "assessment", value |-> p,
       variant |-> IF p >= mean THEN "excellent growing conditions"
                   ELSE "some areas that need attention"]>>

\* app.py:279-294; value is the {prediction:.2f} of app.py:289
OverallAssessment(p, mean) ==
    <<[kind |-> "overall_assessment", section |-> "assessment", value |-> p,
       variant |-> IF p > mean THEN "excellent growing conditions"
                   ELSE "some areas that need attention"]>>

\* Faulty variant: the traceback line of app.py:886 is missing
ErrorDisplayNoTraceback(class) ==
    <<[kind |-> "error_message", section |-> "error", class |-> class],
      [kind |-> "error_details", section |-> "error", class |-> class]>>

\* app.py:883-886
ErrorDisplay(class) ==
    <<[kind |-> "error_message", section |-> "error", class |-> class],
      [kind |-> "error_details", section |-> "error", class |-> class],
      [kind |-> "traceback", section |-> "error", class |-> class]>>

(***************************************************************************)
(* Market datasets.  The market form matches search terms against the      *)
(* lower-cased column names, so a market column name is a sequence of      *)
(* characters.  Every column carries its mean and standard deviation; an   *)
(* object column carries them for each of its indicator columns.           *)
(***************************************************************************)
UpperToLower ==
    [A |-> "a", B |-> "b", C |-> "c", D |-> "d", E |-> "e", F |-> "f", G |-> "g",
     H |-> "h", I |-> "i", J |-> "j", K |-> "k", L |-> "l", M |-> "m", N |-> "n",
     O |-> "o", P |-> "p", Q |-> "q", R |-> "r", S |-> "s", T |-> "t", U |-> "u",
     V |-> "v", W |-> "w", X |-> "x", Y |-> "y", Z |-> "z"]

\* str.lower()
Lower(s) ==
    [i \in 1..Len(s) |-> IF s[i] \in DOMAIN UpperToLower THEN UpperToLower[s[i]] ELSE s[i]]

\* term in s
Contains(s, term) ==
    \E i \in 0..(Len(s) - Len(term)) : SubSeq(s, i + 1, i + Len(term)) = term

MNum(n, m, sd) == [name |-> n, dtype |-> "float64", cats |-> <<>>, mean |-> m, std |-> sd]

MObj(n, cs) == [name |-> n, dtype |-> "object", cats |-> cs, mean |-> 0, std |-> 0]

Cat(v, m, sd) == [value |-> v, mean |-> m, std |-> sd]

Market_Price_per_ton == <<"M", "a", "r", "k", "e", "t", "_", "P", "r", "i", "c", "e", "_", "p", "e", "r", "_", "t", "o", "n">>

Demand_Index == <<"D", "e", "m", "a", "n", "d", "_", "I", "n", "d", "e", "x">>

Economic_Indicator == <<"E", "c", "o", "n", "o", "m", "i", "c", "_", "I", "n", "d", "i", "c", "a", "t", "o", "r">>

Weather_Impact_Score == <<"W", "e", "a", "t", "h", "e", "r", "_", "I", "m", "p", "a", "c", "t", "_", "S", "c", "o", "r", "e">>

Consumer_Trend_Index == <<"C", "o", "n", "s", "u", "m", "e", "r", "_", "T", "r", "e", "n", "d", "_", "I", "n", "d", "e", "x">>

Competitor_Price_per_ton == <<"C", "o", "m", "p", "e", "t", "i", "t", "o", "r", "_", "P", "r", "i", "c", "e", "_", "p", "e", "r", "_", "t", "o", "n">>

Product == <<"P", "r", "o", "d", "u", "c", "t">>

Price_Change == <<"P", "r", "i", "c", "e", "_", "C", "h", "a", "n", "g", "e">>

Seasonal_Factor == <<"S", "e", "a", "s", "o", "n", "a", "l", "_", "F", "a", "c", "t", "o", "r">>

\* numeric columns only; the last column is the target
MarketNumeric ==
    [columns |-> <<MNum(Market_Price_per_ton, 300, 50), MNum(Demand_Index, 150, 20),
                   MNum(Economic_Indicator, 100, 10),
                   MNum(Weather_Impact_Score, 50, 20),
                   MNum(Consumer_Trend_Index, 100, 15)>>,
     rows |-> 3]

\* a categorical column before the numeric ones
MarketProduct ==
    [columns |-> <<MObj(Product, <<Cat(<<"R", "i", "c", "e">>, 1, 1), Cat(<<"W", "h", "e", "a", "t">>, 1, 1)>>),
                   MNum(Competitor_Price_per_ton, 290, 40),
                   MNum(Consumer_Trend_Index, 100, 15)>>,
     rows |-> 3]

\* a column whose mean is negative
MarketNegative ==
    [columns |-> <<MNum(Price_Change, -5, 1), MNum(Consumer_Trend_Index, 100, 15)>>,
     rows |-> 3]

\* a column that holds the same value in every row (standard deviation 0)
MarketConstant ==
    [columns |-> <<MNum(Seasonal_Factor, 1, 0), MNum(Consumer_Trend_Index, 100, 15)>>,
     rows |-> 3]

\* a header line and no data rows
MarketEmpty ==
    [columns |-> <<MObj(Product, <<>>), MObj(Consumer_Trend_Index, <<>>)>>,
     rows |-> 0]

MarketDatasets == {MarketNumeric, MarketProduct, MarketNegative, MarketConstant, MarketEmpty}

(***************************************************************************)
(* Market feature preparation, app.py:623-635                              *)
(***************************************************************************)
\* pd.get_dummies(model_df, columns=[col]): the prefix is the column's name
market_get_dummies(columns, col) ==
    LET c == Column(columns, col)
    IN  SelectSeq(columns, LAMBDA d : d.name # col)
        \o [k \in 1..Len(c.cats) |->
               MNum(col \o <<"_">> \o c.cats[k].value, c.cats[k].mean, c.cats[k].std)]

RECURSIVE MarketEncode(_, _, _)
\* the loop of app.py:628-630: each column is compared with the frame's last
\* column as it is at that iteration
MarketEncode(columns, cat, k) ==
    IF k > Len(cat) THEN columns
    ELSE MarketEncode(
             IF cat[k] # columns[Len(columns)].name
             THEN market_get_dummies(columns, cat[k]) ELSE columns,
             cat, k + 1)

MarketModelDf(df) == MarketEncode(df.columns, categorical_columns(df.columns), 1)

\* app.py:634: model_df.drop(columns=[model_df.columns[-1]])
MarketFeatures(model_columns) == SubSeq(model_columns, 1, Len(model_columns) - 1)

(***************************************************************************)
(* Market form, app.py:645-726                                             *)
(***************************************************************************)
PriceTerms == {<<"p", "r", "i", "c", "e">>, <<"c", "o", "s", "t">>}

MarketTerms == {<<"m", "a", "r", "k", "e", "t">>, <<"d", "e", "m", "a", "n", "d">>, <<"s", "u", "p", "p", "l", "y">>}

EconomicTerms == {<<"e", "c", "o", "n", "o", "m", "i", "c">>, <<"g", "r", "o", "w", "t", "h">>, <<"i", "n", "d", "e", "x">>}

\* any(term in col.lower() for term in terms)
Matches(name, terms) == \E t \in terms : Contains(Lower(name), t)

\* app.py:653-656
min_val(c) == IF c.mean - 3 * c.std > 0 THEN c.mean - 3 * c.std ELSE 0

max_val(c) == c.mean + 3 * c.std

\* app.py:657: (max_val - min_val) / 100, kept as the exact quotient
\* <<numerator, denominator>>
step(c) == <<max_val(c) - min_val(c), 100>>

\* the columns one loop of the form gives a slider, in X's order
PriceColumns(Xc) == SelectSeq(Xc, LAMBDA c : Matches(c.name, PriceTerms))

MarketColumns(Xc) == SelectSeq(Xc, LAMBDA c : Matches(c.name, MarketTerms))

EconomicColumns(Xc) == SelectSeq(Xc, LAMBDA c : Matches(c.name, EconomicTerms))

\* app.py:710: col not in {**price_data, **market_data, **economic_data}
OtherColumns(Xc) ==
    SelectSeq(Xc, LAMBDA c : c.name \notin Range(Names(PriceColumns(Xc)))
                                         \cup Range(Names(MarketColumns(Xc)))
                                         \cup Range(Names(EconomicColumns(Xc))))

\* the sliders in creation order: price, market, economic, other
Sliders(Xc) ==
    [i \in 1..Len(PriceColumns(Xc)) |-> [group |-> "price", col |-> PriceColumns(Xc)[i]]]
    \o [i \in 1..Len(MarketColumns(Xc)) |-> [group |-> "market", col |-> MarketColumns(Xc)[i]]]
    \o [i \in 1..Len(EconomicColumns(Xc)) |-> [group |-> "economic", col |-> EconomicColumns(Xc)[i]]]
    \o [i \in 1..Len(OtherColumns(Xc)) |-> [group |-> "other", col |-> OtherColumns(Xc)[i]]]

\* st.slider rejects a default value outside [min_value, max_value] and a
\* min_value that is not below max_value
SliderAccepted(c) == min_val(c) < max_val(c) /\ min_val(c) <= c.mean /\ c.mean <= max_val(c)

\* positions the user can leave a slider at: its ends and its default
SliderValues(c) == {min_val(c), c.mean, max_val(c)}

\* price_data, market_data, economic_data, other_data as filled by the form
GroupData(sl, g) ==
    LET mine == SelectSeq(sl, LAMBDA x : x.group = g)
    IN  [i \in 1..Len(mine) |-> <<mine[i].col, mine[i].value>>]

RECURSIVE MergeDicts(_, _)
\* {**a, **b}: a key keeps the place of its first insertion and takes the
\* value of its last
MergeDicts(a, b) ==
    IF b = <<>> THEN a
    ELSE LET k == b[1][1]
             merged == IF k \in Range(Keys(a))
                       THEN [i \in 1..Len(a) |-> IF a[i][1] = k THEN b[1] ELSE a[i]]
                       ELSE Append(a, b[1])
         IN  MergeDicts(merged, Tail(b))

\* Faulty variant: the dicts merged in the reverse order, so the first group wins
MarketInputDataReversed(sl) ==
    MergeDicts(MergeDicts(MergeDicts(GroupData(sl, "other"), GroupData(sl, "economic")),
                          GroupData(sl, "market")),
               GroupData(sl, "price"))

\* app.py:730
MarketInputData(sl) ==
    MergeDicts(MergeDicts(MergeDicts(GroupData(sl, "price"), GroupData(sl, "market")),
                          GroupData(sl, "economic")),
               GroupData(sl, "other"))

RECURSIVE SliderChoices(_, _)
\* every way of setting the first k sliders
SliderChoices(sl, k) ==
    IF k = 0 THEN {<<>>}
    ELSE {Append(s, [group |-> sl[k].group, col |-> sl[k].col.name, value |-> v]) :
              s \in SliderChoices(sl, k - 1), v \in SliderValues(sl[k].col)}

SliderDefaults(sl) ==
    [i \in 1..Len(sl) |-> [group |-> sl[i].group, col |-> sl[i].col.name,
                           value |-> sl[i].col.mean]]

GroupHeader(g) == [kind |-> g \o "_header", section |-> "market_form"]

\* the headers and sliders of the form in creation order, app.py:649-724
FormItems(sl) ==
    LET items(g) == <<[header |-> TRUE, group |-> g]>>
                    \o [i \in 1..Len(SelectSeq(sl, LAMBDA x : x.group = g)) |->
                           [header |-> FALSE, group |-> g,
                            col |-> SelectSeq(sl, LAMBDA x : x.group = g)[i].col]]
    IN  items("price") \o items("market") \o items("economic") \o items("other")

ItemRejected(item) == ~item.header /\ ~SliderAccepted(item.col)

\* the number of form items rendered before st.slider raises (all, if none does)
RenderedItems(items) ==
    IF \E i \in 1..Len(items) : ItemRejected(items[i])
    THEN (CHOOSE i \in 1..Len(items) :
              ItemRejected(items[i]) /\ \A j \in 1..(i - 1) : ~ItemRejected(items[j])) - 1
    ELSE Len(items)

ItemElement(item) ==
    IF item.header THEN GroupHeader(item.group)
    ELSE [kind |-> "slider", section |-> "market_form", group |-> item.group,
          col |-> item.col.name, min_value |-> min_val(item.col),
          max_value |-> max_val(item.col), value |-> item.col.mean,
          step |-> step(item.col)]

\* Faulty variant: half of the group's sliders below the mean is enough
RiskFiresAtHalf(sl, Xc, g) ==
    LET data == GroupData(sl, g)
        risk == Cardinality({i \in 1..Len(data) : data[i][2] < Column(Xc, data[i][1]).mean})
    IN  2 * risk >= Len(data)

\* app.py:796-799, 811-814, 826-829
RiskFires(sl, Xc, g) ==
    LET data == GroupData(sl, g)
        risk == Cardinality({i \in 1..Len(data) : data[i][2] < Column(Xc, data[i][1]).mean})
    IN  2 * risk > Len(data)

\* app.py:742: prediction / y.mean() * 100, kept as the exact quotient
\* <<numerator, denominator>>
MarketScore(p, mean) == <<p * 100, mean>>

\* app.py:742-880
MarketAnalysis(p, mean, sl, Xc) ==
    <<El("market_analysis_header", "market_analysis"),
      El("market_position_header", "market_analysis"),
      [kind |-> "market_performance", section |-> "market_analysis",
       variant |-> IF p < mean THEN "warning" ELSE "success",
       market_score |-> MarketScore(p, mean)],
      El("risk_header", "market_analysis")>>
    \o (IF RiskFires(sl, Xc, "price") THEN <<El("price_risk", "risk")>> ELSE <<>>)
    \o (IF RiskFires(sl, Xc, "market") THEN <<El("market_risk", "risk")>> ELSE <<>>)
    \o (IF RiskFires(sl, Xc, "economic") THEN <<El("economic_risk", "risk")>> ELSE <<>>)
    \o <<El("strategic_plan_header", "market_analysis"),
         El("strategic_action_plan", "market_analysis")>>

(***************************************************************************)
(* Script runs                                                             *)
(***************************************************************************)
\* Faulty variant: the elements of the previous run stay on the page
StartRunKeepingPage ==
    /\ pc' = "load"
    /\ farmer_df' = NoFrame /\ market_df' = NoFrame
    /\ X' = <<>> /\ y_mean' = 0
    /\ crop_info' = NoProfile
    /\ form' = NoForm /\ sliders' = <<>>
    /\ input_data' = <<>> /\ input_df' = <<>>
    /\ prediction' = 0
    /\ exc' = NoException
    /\ out' = out \o Title

\* a run starts: every name of the script is unbound again, and the title
\* (app.py:50-53, before the try block) is rendered
StartRun ==
    /\ pc' = "load"
    /\ farmer_df' = NoFrame /\ market_df' = NoFrame
    /\ X' = <<>> /\ y_mean' = 0
    /\ crop_info' = NoProfile
    /\ form' = NoForm /\ sliders' = <<>>
    /\ input_data' = <<>> /\ input_df' = <<>>
    /\ prediction' = 0
    /\ exc' = NoException
    /\ out' = Title

\* raise: control passes to the except clause of app.py:882
Raise(class) ==
    /\ exc' = class
    /\ pc' = "except"

\* a new session: the selectboxes hold their first option unless the crop
\* identifier is handed in, and the first run starts
SessionStart(crop) ==
    /\ CROP_CONDITIONS = CropConditionsTable
    /\ page = Pages[1]
    /\ selected_crop = crop
    /\ submitted = FALSE
    /\ pc = "load"
    /\ farmer_df = NoFrame /\ market_df = NoFrame
    /\ X = <<>> /\ y_mean = 0
    /\ crop_info = NoProfile
    /\ form = NoForm /\ sliders = <<>>
    /\ input_data = <<>> /\ input_df = <<>>
    /\ prediction = 0
    /\ exc = NoException
    /\ out = Title

Init == SessionStart(CropKeys[1])

(***************************************************************************)
(* User interactions; each is offered by a widget of the displayed page    *)
(* and starts a run.  Widgets a run did not render lose their state.       *)
(***************************************************************************)
\* the browser reloads the page: a new session
Reload ==
    /\ pc = "idle"
    /\ page' = Pages[1]
    /\ selected_crop' = CropKeys[1]
    /\ submitted' = FALSE
    /\ StartRun
    /\ UNCHANGED CROP_CONDITIONS

\* app.py:78
SelectPage(p) ==
    /\ pc = "idle"
    /\ "page_selectbox" \in Kinds(out)
    /\ p # page
    /\ page' = p
    /\ selected_crop' = CropKeys[1]
    /\ submitted' = FALSE
    /\ StartRun
    /\ UNCHANGED CROP_CONDITIONS

\* app.py:116
SelectCrop(c) ==
    /\ pc = "idle"
    /\ "crop_selectbox" \in Kinds(out)
    /\ c # selected_crop
    /\ selected_crop' = c
    /\ submitted' = FALSE
    /\ StartRun
    /\ UNCHANGED <<CROP_CONDITIONS, page>>

\* app.py:184 and app.py:726
SubmitForm ==
    /\ pc = "idle"
    /\ "submit_button" \in Kinds(out)
    /\ submitted' = TRUE
    /\ StartRun
    /\ UNCHANGED <<CROP_CONDITIONS, page, selected_crop>>

(***************************************************************************)
(* app.py:55-78                                                            *)
(***************************************************************************)
LoadDatasets ==
    /\ pc = "load"
    /\ \/ /\ Raise("FileNotFoundError")
          /\ UNCHANGED <<farmer_df, market_df, out>>
       \/ /\ farmer_df' \in FarmerDatasets
          /\ market_df' \in MarketDatasets
          /\ out' = out \o ModelInfo
          /\ pc' = IF page = "Farmer Advisor" THEN "farmer_prepare" ELSE "market_prepare"
          /\ exc' = exc
    /\ UNCHANGED <<CROP_CONDITIONS, page, selected_crop, form, sliders, submitted, X,
                   y_mean, crop_info, input_data, input_df, prediction>>

(***************************************************************************)
(* Farmer Advisor, app.py:80-614                                           *)
(***************************************************************************)
\* app.py:81-102
FarmerPrepare ==
    /\ pc = "farmer_prepare"
    /\ out' = out \o FarmerHeader
    /\ LET model_df == FarmerModelDf(farmer_df)
       IN  IF target_col \in Range(Names(model_df))
           THEN /\ X' = feature_cols(model_df)
                /\ y_mean' = farmer_df.y_mean
                /\ pc' = "farmer_train"
                /\ exc' = exc
           ELSE /\ Raise("KeyError")
                /\ UNCHANGED <<X, y_mean>>
    /\ UNCHANGED <<CROP_CONDITIONS, page, selected_crop, form, sliders, submitted,
                   farmer_df, market_df, crop_info, input_data, input_df, prediction>>

\* train_test_split(test_size=0.2) leaves no training row when there are
\* fewer than two rows, and raises
CanSplit(df) == df.rows >= 2

\* app.py:105-107
FarmerTrain ==
    /\ pc = "farmer_train"
    /\ IF CanSplit(farmer_df)
       THEN pc' = "farmer_form" /\ exc' = exc
       ELSE Raise("ValueError")
    /\ UNCHANGED <<CROP_CONDITIONS, page, selected_crop, form, sliders, submitted,
                   farmer_df, market_df, X, y_mean, crop_info, input_data, input_df,
                   prediction, out>>

\* app.py:110-116
FarmerFormHead == <<El("make_predictions", "dashboard"), El("crop_selectbox", "dashboard")>>

\* app.py:120-184
FarmerFormBody(crop, info) ==
    <<[kind |-> "optimal_conditions", section |-> "dashboard", crop |-> crop,
       temp_range |-> info.temp_range, soil_ph |-> info.soil_ph,
       rainfall |-> info.rainfall, soil_moisture |-> info.soil_moisture,
       fertilizer_npk |-> info.fertilizer_npk, growing_period |-> info.growing_period,
       water_requirement |-> info.water_requirement],
      El("prediction_form", "dashboard"), El("submit_button", "dashboard")>>

\* Faulty variant: dict.get with the first entry as the default
LookupWithFallback(table, crop) ==
    IF crop \in DOMAIN table
    THEN [raised |-> NoException, value |-> table[crop]]
    ELSE [raised |-> NoException, value |-> table[CropKeys[1]]]

\* app.py:117: CROP_CONDITIONS[selected_crop]; a dict raises KeyError for a
\* key it does not hold, and then binds nothing
Lookup(table, crop) ==
    IF crop \in DOMAIN table
    THEN [raised |-> NoException, value |-> table[crop]]
    ELSE [raised |-> "KeyError", value |-> NoProfile]

\* Faulty variant: the script goes on after the form without a submission
FormTargetUnguarded(sub, next) == next

\* app.py:186 and app.py:728: if submitted: ...; otherwise the script ends
FormTarget(sub, next) == IF sub THEN next ELSE "idle"

\* app.py:110-186
FarmerForm ==
    /\ pc = "farmer_form"
    /\ IF Lookup(CROP_CONDITIONS, selected_crop).raised = NoException
       THEN LET info == Lookup(CROP_CONDITIONS, selected_crop).value
            IN  /\ crop_info' = info
                /\ out' = out \o FarmerFormHead \o FarmerFormBody(selected_crop, info)
                /\ exc' = exc
                /\ IF submitted
                   THEN \E t \in TempValues, r \in RainValues, p \in PhValues,
                           rest \in RestValues(info) :
                           form' = [temp |-> t, rainfall |-> r, soil_ph |-> p,
                                       soil_moisture |-> rest.soil_moisture,
                                       fertilizer |-> rest.fertilizer,
                                       pesticide |-> rest.pesticide,
                                       sustainability |-> rest.sustainability]
                   ELSE form' = FormDefaults(info)
                /\ pc' = FormTarget(submitted, "farmer_input")
       ELSE /\ Raise(Lookup(CROP_CONDITIONS, selected_crop).raised)
            /\ out' = out \o FarmerFormHead
            /\ UNCHANGED <<crop_info, form>>
    /\ UNCHANGED <<CROP_CONDITIONS, page, selected_crop, sliders, submitted, farmer_df,
                   market_df, X, y_mean, input_data, input_df, prediction>>

\* app.py:188-204
FarmerBuildInput ==
    /\ pc = "farmer_input"
    /\ LET data == BuildInputData(form, selected_crop)
       IN  /\ input_data' = data
           /\ IF CanSelect(data, Names(X))
              THEN /\ input_df' = SelectColumns(data, Names(X))
                   /\ pc' = "farmer_predict"
                   /\ exc' = exc
              ELSE /\ Raise("KeyError")
                   /\ input_df' = data
    /\ UNCHANGED <<CROP_CONDITIONS, page, selected_crop, form, sliders, submitted,
                   farmer_df, market_df, X, y_mean, crop_info, prediction, out>>

\* the regressor is a black box: its value is any of below, at, above y.mean()
Predictions(mean) == {mean - 1, mean, mean + 1}

\* app.py:207-208
FarmerPredict ==
    /\ pc = "farmer_predict"
    /\ \E p \in Predictions(y_mean) :
          /\ prediction' = p
          /\ out' = Append(out, [kind |-> "prediction", section |-> "prediction",
                                 crop |-> selected_crop, value |-> p])
    /\ pc' = "farmer_recommend"
    /\ UNCHANGED <<CROP_CONDITIONS, page, selected_crop, form, sliders, submitted,
                   farmer_df, market_df, X, y_mean, crop_info, input_data, input_df, exc>>

\* app.py:211-276
RecommendationsHead ==
    <<El("recommendations_header", "dashboard"), El("style", "dashboard")>>

\* Faulty variant: the looked-up profile is written to while advising
FarmerRecommendWritingProfile ==
    /\ pc = "farmer_recommend"
    /\ out' = out \o RecommendationsHead \o OverallAssessment(prediction, y_mean)
                  \o Recommendations(form, selected_crop, crop_info)
    /\ pc' = "idle"
    /\ CROP_CONDITIONS' = [CROP_CONDITIONS EXCEPT
                               ![selected_crop].temp_range = <<form.temp, @[2]>>]
    /\ UNCHANGED <<page, selected_crop, form, sliders, submitted,
                   farmer_df, market_df, X, y_mean, crop_info, input_data, input_df,
                   prediction, exc>>

\* app.py:211-614
FarmerRecommend ==
    /\ pc = "farmer_recommend"
    /\ out' = out \o RecommendationsHead \o OverallAssessment(prediction, y_mean)
                  \o Recommendations(form, selected_crop, crop_info)
    /\ pc' = "idle"
    /\ UNCHANGED <<CROP_CONDITIONS, page, selected_crop, form, sliders, submitted,
                   farmer_df, market_df, X, y_mean, crop_info, input_data, input_df,
                   prediction, exc>>

(***************************************************************************)
(* Market Researcher, app.py:616-880                                       *)
(***************************************************************************)
\* app.py:617-621
MarketHeader == <<El("market_header", "dashboard"), El("sample_data", "dashboard")>>

\* app.py:617-635
MarketPrepare ==
    /\ pc = "market_prepare"
    /\ out' = out \o MarketHeader
    /\ LET model_df == MarketModelDf(market_df)
       IN  /\ X' = MarketFeatures(model_df)
           /\ y_mean' = model_df[Len(model_df)].mean
    /\ pc' = "market_train"
    /\ UNCHANGED <<CROP_CONDITIONS, page, selected_crop, form, sliders, submitted,
                   farmer_df, market_df, crop_info, input_data, input_df, prediction,
                   exc>>

\* app.py:638-640
MarketTrain ==
    /\ pc = "market_train"
    /\ IF CanSplit(market_df)
       THEN pc' = "market_form" /\ exc' = exc
       ELSE Raise("ValueError")
    /\ UNCHANGED <<CROP_CONDITIONS, page, selected_crop, form, sliders, submitted,
                   farmer_df, market_df, X, y_mean, crop_info, input_data, input_df,
                   prediction, out>>

\* app.py:643-728
MarketForm ==
    /\ pc = "market_form"
    /\ LET sl == Sliders(X)
           items == FormItems(sl)
           n == RenderedItems(items)
           head == <<El("market_analysis_prediction", "dashboard")>>
                   \o [i \in 1..n |-> ItemElement(items[i])]
       IN  IF n = Len(items)
           THEN /\ out' = out \o head \o <<El("submit_button", "dashboard")>>
                /\ exc' = exc
                /\ IF submitted
                   THEN sliders' \in SliderChoices(sl, Len(sl))
                   ELSE sliders' = SliderDefaults(sl)
                /\ pc' = FormTarget(submitted, "market_input")
           ELSE /\ out' = out \o head
                /\ Raise("StreamlitAPIException")
                /\ UNCHANGED sliders
    /\ UNCHANGED <<CROP_CONDITIONS, page, selected_crop, form, submitted, farmer_df,
                   market_df, X, y_mean, crop_info, input_data, input_df, prediction>>

\* app.py:730-734
MarketBuildInput ==
    /\ pc = "market_input"
    /\ LET data == MarketInputData(sliders)
       IN  /\ input_data' = data
           /\ IF CanSelect(data, Names(X))
              THEN /\ input_df' = SelectColumns(data, Names(X))
                   /\ pc' = "market_predict"
                   /\ exc' = exc
              ELSE /\ Raise("KeyError")
                   /\ input_df' = data
    /\ UNCHANGED <<CROP_CONDITIONS, page, selected_crop, form, sliders, submitted,
                   farmer_df, market_df, X, y_mean, crop_info, prediction, out>>

\* app.py:737-739
MarketPredict ==
    /\ pc = "market_predict"
    /\ \E p \in Predictions(y_mean) :
          /\ prediction' = p
          /\ out' = Append(out, [kind |-> "prediction", section |-> "prediction",
                                 value |-> p])
    /\ pc' = "market_analysis"
    /\ UNCHANGED <<CROP_CONDITIONS, page, selected_crop, form, sliders, submitted,
                   farmer_df, market_df, X, y_mean, crop_info, input_data, input_df, exc>>

\* app.py:742-880
MarketAnalyse ==
    /\ pc = "market_analysis"
    /\ out' = out \o MarketAnalysis(prediction, y_mean, sliders, X)
    /\ pc' = "idle"
    /\ UNCHANGED <<CROP_CONDITIONS, page, selected_crop, form, sliders, submitted,
                   farmer_df, market_df, X, y_mean, crop_info, input_data, input_df,
                   prediction, exc>>

(***************************************************************************)
(* app.py:882-886: the except clause ends the run                          *)
(***************************************************************************)
HandleException ==
    /\ pc = "except"
    /\ out' = out \o ErrorDisplay(exc)
    /\ pc' = "idle"
    /\ UNCHANGED <<CROP_CONDITIONS, page, selected_crop, form, sliders, submitted,
                   farmer_df, market_df, X, y_mean, crop_info, input_data, input_df,
                   prediction, exc>>

Next ==
    \/ Reload
    \/ \E p \in Range(Pages) : SelectPage(p)
    \/ \E c \in SupportedCrops : SelectCrop(c)
    \/ SubmitForm
    \/ LoadDatasets
    \/ FarmerPrepare
    \/ FarmerTrain
    \/ FarmerForm
    \/ FarmerBuildInput
    \/ FarmerPredict
    \/ FarmerRecommend
    \/ MarketPrepare
    \/ MarketTrain
    \/ MarketForm
    \/ MarketBuildInput
    \/ MarketPredict
    \/ MarketAnalyse
    \/ HandleException

Spec == Init /\ [][Next]_vars

(***************************************************************************)
(* The lookup of app.py:117 applied to arbitrary crop identifiers: the      *)
(* first run of a session looks up an identifier drawn from CropIdentifiers *)
(* instead of the selectbox's first option.                                 *)
(***************************************************************************)
CropIdentifiers == SupportedCrops \cup {"Barley", "rice", "Maize"}

InitLookup == \E crop \in CropIdentifiers : SessionStart(crop)

SpecLookup == InitLookup /\ [][Next]_vars

(***************************************************************************)
(* Properties                                                              *)
(***************************************************************************)
Fired(kind) == kind \in Kinds(out)

\* a submitted Farmer Advisor run that reached the end of the script
FarmerSubmissionRendered ==
    pc = "idle" /\ page = "Farmer Advisor" /\ submitted /\ exc = NoException

\* C1: on every rendered farmer submission, for the selected crop's temperature
\* range (min, max): temperature < min fires the low-temperature block and not
\* the high one; temperature > max fires the high-temperature block and not the
\* low one; min <= temperature <= max fires neither; the two never fire together.
C1_TemperatureBlocks ==
    FarmerSubmissionRendered =>
        LET range == CROP_CONDITIONS[selected_crop].temp_range
        IN  /\ form.temp < range[1] =>
                   Fired("low_temperature") /\ ~Fired("high_temperature")
            /\ form.temp > range[2] =>
                   Fired("high_temperature") /\ ~Fired("low_temperature")
            /\ (range[1] <= form.temp /\ form.temp <= range[2]) =>
                   ~Fired("low_temperature") /\ ~Fired("high_temperature")
            /\ ~(Fired("low_temperature") /\ Fired("high_temperature"))

\* Wheat at exactly its range max (25.00): no block; shown next to a block firing
C1_Witness ==
    /\ FarmerSubmissionRendered
    /\ selected_crop = "Wheat"
    /\ form.temp = CROP_CONDITIONS["Wheat"].temp_range[2]
    /\ ~Fired("low_temperature") /\ ~Fired("high_temperature")
    /\ Fired("soil_acidity")

\* C2: on every rendered farmer submission the acidic block fires iff soil pH is
\* below the selected crop's soil_ph min, the alkaline block fires iff soil pH is
\* above the max, neither fires inside [min, max], and they never fire together.
C2_SoilPhBlocks ==
    FarmerSubmissionRendered =>
        LET range == CROP_CONDITIONS[selected_crop].soil_ph
        IN  /\ Fired("soil_acidity") <=> form.soil_ph < range[1]
            /\ Fired("alkaline_soil") <=> form.soil_ph > range[2]
            /\ (range[1] <= form.soil_ph /\ form.soil_ph <= range[2]) =>
                   ~Fired("soil_acidity") /\ ~Fired("alkaline_soil")
            /\ ~(Fired("soil_acidity") /\ Fired("alkaline_soil"))

\* Rice at pH 6.51, just above its max of 6.50: the alkaline block alone fires
C2_Witness ==
    /\ FarmerSubmissionRendered
    /\ selected_crop = "Rice"
    /\ form.soil_ph = CROP_CONDITIONS["Rice"].soil_ph[2] + 1
    /\ Fired("alkaline_soil") /\ ~Fired("soil_acidity")

\* the elements of the rainfall section that a run rendered
RainfallElements == {i \in 1..Len(out) : out[i].section = "rainfall"}

\* C3: on every rendered farmer submission the insufficient-rainfall block fires
\* iff rainfall is below the selected crop's rainfall min, it is the only kind of
\* rainfall block, and at or above the min (also above the max) there is none.
C3_RainfallBlock ==
    FarmerSubmissionRendered =>
        LET range == CROP_CONDITIONS[selected_crop].rainfall
        IN  /\ Fired("rainfall_insufficient") <=> form.rainfall < range[1]
            /\ \A i \in RainfallElements : out[i].kind = "rainfall_insufficient"
            /\ form.rainfall >= range[1] => RainfallElements = {}

\* Soybean with 3000 mm, far above its max of 700 mm: no rainfall block
C3_Witness ==
    /\ FarmerSubmissionRendered
    /\ selected_crop = "Soybean"
    /\ form.rainfall > CROP_CONDITIONS["Soybean"].rainfall[2]
    /\ RainfallElements = {}

Occurrences(kind) == Cardinality({i \in 1..Len(out) : out[i].kind = kind})

\* C4: every rendered farmer submission shows the growth-stage section and the
\* nutrient-management section, once each, whatever crop is selected and
\* whichever temperature, soil pH and rainfall blocks fired.
C4_UnconditionalSections ==
    FarmerSubmissionRendered =>
        /\ Occurrences("growth_stage_management") = 1
        /\ Occurrences("nutrient_management_guide") = 1

\* Soybean with no conditional block at all, and both sections present
C4_Witness ==
    /\ FarmerSubmissionRendered
    /\ selected_crop = "Soybean"
    /\ Sections(out) \cap {"temperature", "soil_ph", "rainfall"} = {}
    /\ Fired("growth_stage_management") /\ Fired("nutrient_management_guide")

AdvisoryOrder == <<"temperature", "soil_ph", "rainfall", "growth_stage", "nutrient">>

Rank(section) == CHOOSE k \in 1..Len(AdvisoryOrder) : AdvisoryOrder[k] = section

\* C5: in the rendered output the advisory sections appear in the order
\* temperature, soil pH, rainfall, growth-stage, nutrient-management: of two
\* advisory elements the earlier one belongs to the earlier section of the list.
C5_SectionOrder ==
    \A i, j \in 1..Len(out) :
        (/\ i < j
         /\ out[i].section \in Range(AdvisoryOrder)
         /\ out[j].section \in Range(AdvisoryOrder))
        => Rank(out[i].section) < Rank(out[j].section)

\* a submission on which all five sections fired
C5_Witness ==
    /\ FarmerSubmissionRendered
    /\ Range(AdvisoryOrder) \subseteq Sections(out)

CropColumns == {"Crop_Type_" \o CropKeys[i] : i \in 1..Len(CropKeys)}

\* the entries of a row that are crop indicator columns set to 1
IndicatorsSet(row) == {i \in 1..Len(row) : row[i][1] \in CropColumns /\ row[i][2] = 1}

\* a farmer run has built its input row (app.py:188-200)
FarmerRowBuilt == page = "Farmer Advisor" /\ input_data # <<>>

\* C6: the row built for the predictor holds the four crop indicator columns,
\* exactly one of them is 1, it is the selected crop's, and the other three are
\* 0; the aligned row keeps those values for the crop columns of the schema.
C6_OneHotCrop ==
    FarmerRowBuilt =>
        /\ CropColumns \subseteq Range(Keys(input_data))
        /\ Cardinality(IndicatorsSet(input_data)) = 1
        /\ \A c \in SupportedCrops :
               Value(input_data, "Crop_Type_" \o c) = IF c = selected_crop THEN 1 ELSE 0
        /\ \A i \in 1..Len(input_df) :
               input_df[i][1] \in CropColumns =>
                   input_df[i][2] = IF input_df[i][1] = "Crop_Type_" \o selected_crop
                                    THEN 1 ELSE 0
        /\ CropColumns \subseteq Range(Names(X)) =>
               (pc = "farmer_predict" => Cardinality(IndicatorsSet(input_df)) = 1)

\* Corn selected, the row handed to predict carries the single indicator
C6_Witness ==
    /\ FarmerRowBuilt
    /\ pc = "farmer_predict"
    /\ farmer_df = FarmerStandard
    /\ selected_crop = "Corn"
    /\ Cardinality(IndicatorsSet(input_df)) = 1
    /\ Value(input_df, "Crop_Type_Corn") = 1
    /\ Value(input_df, "Crop_Type_Rice") = 0

\* predict is being, or has been, called in a farmer run
FarmerRowPassed ==
    page = "Farmer Advisor" /\ pc \in {"farmer_predict", "farmer_recommend"}

\* C7: the row passed to predict on the farmer path has exactly the columns of
\* the training features X (the encoded frame without target and Farm_ID), in
\* the order of X, whatever the dataset; its values are those of the form.
C7_RowMatchesSchema ==
    FarmerRowPassed =>
        /\ Keys(input_df) = Names(X)
        /\ Names(X) = Names(feature_cols(FarmerModelDf(farmer_df)))
        /\ \A i \in 1..Len(input_df) :
               input_df[i][2] = Value(input_data, input_df[i][1])

\* the dict's order differs from the schema's and the row was reordered; the
\* file holds two of the four crops, so two indicator columns were dropped
C7_Witness ==
    /\ FarmerRowPassed
    /\ farmer_df = FarmerTwoCrops
    /\ Keys(input_data) # Keys(input_df)
    /\ Len(input_df) = 9

\* C10: the table holds exactly one profile for each of the four crops; every
\* profile has min < max for temperature, soil pH, rainfall and soil moisture,
\* soil pH within [0, 14] and soil moisture within [0, 1].
C10_ProfilesWellFormed ==
    /\ DOMAIN CROP_CONDITIONS = SupportedCrops
    /\ Cardinality(DOMAIN CROP_CONDITIONS) = 4
    /\ \A c \in DOMAIN CROP_CONDITIONS :
           LET info == CROP_CONDITIONS[c]
           IN  /\ info.temp_range[1] < info.temp_range[2]
               /\ 0 <= info.soil_ph[1] /\ info.soil_ph[1] < info.soil_ph[2]
               /\ info.soil_ph[2] <= 1400
               /\ info.rainfall[1] < info.rainfall[2]
               /\ 0 <= info.soil_moisture[1]
               /\ info.soil_moisture[1] < info.soil_moisture[2]
               /\ info.soil_moisture[2] <= 100

\* the profile of Wheat as a run looked it up
C10_Witness ==
    /\ pc = "idle"
    /\ selected_crop = "Wheat"
    /\ crop_info = CROP_CONDITIONS["Wheat"]
    /\ crop_info.soil_ph = <<600, 700>>

\* the lookup of this run was applied to an identifier outside the table
UnknownCropLookedUp == Fired("crop_selectbox") /\ selected_crop \notin SupportedCrops

ErrorRun == pc = "idle" /\ exc # NoException

ResultSections ==
    {"prediction", "assessment", "temperature", "soil_ph", "rainfall", "growth_stage",
     "nutrient", "market_analysis", "risk"}

\* C9 as stated: a run that ends in the error display shows none of the normal
\* output of that run (the title comes from before the try block).
C9_NoPartialOutput ==
    ErrorRun => \A i \in 1..Len(out) : out[i].kind = "title" \/ out[i].section = "error"

\* C9 amended: an exception is caught once and the run ends with the failure
\* message, the exception class name and the traceback, in that order, and is
\* not run again; what the run rendered before the exception stays on the page,
\* but no prediction, assessment, advisory or market-analysis output is among
\* it.  A run without an exception shows no error element.
C9_ErrorDisplay ==
    /\ ErrorRun =>
           /\ Len(out) >= 4
           /\ out[1].kind = "title"
           /\ [i \in 1..3 |-> out[Len(out) - 3 + i].kind]
                  = <<"error_message", "error_details", "traceback">>
           /\ \A i \in (Len(out) - 2)..Len(out) : out[i].class = exc
           /\ \A i \in 1..(Len(out) - 3) : out[i].section # "error"
           /\ Occurrences("title") = 1
           /\ Occurrences("farmer_model_info") <= 1
           /\ Sections(out) \cap ResultSections = {}
    /\ exc = NoException => "error" \notin Sections(out)

\* a submitted farmer run failed at the column alignment of app.py:204, after
\* the dashboard and the whole form had been rendered
C9_Witness ==
    /\ ErrorRun
    /\ page = "Farmer Advisor" /\ submitted
    /\ exc = "KeyError"
    /\ Fired("farmer_model_info") /\ Fired("optimal_conditions") /\ Fired("submit_button")

\* C11: the condition table is never altered: after any sequence of page loads,
\* crop selections, page switches and form submissions, error renders included,
\* it holds exactly the entries it was defined with.
C11_TableNeverAltered == CROP_CONDITIONS = CropConditionsTable

\* after a page load, a crop selection and a submission, the run that looked
\* up and used the profile of Corn has ended and the entry is as defined
C11_Witness ==
    /\ FarmerSubmissionRendered
    /\ selected_crop = "Corn"
    /\ Fired("rainfall_insufficient")
    /\ crop_info = CROP_CONDITIONS["Corn"]
    /\ CROP_CONDITIONS["Corn"].rainfall = <<50000, 80000>>

\* the market form of a run without exception, from the dataset alone
MarketFormPage(df) ==
    LET items == FormItems(Sliders(MarketFeatures(MarketModelDf(df))))
    IN  <<El("market_analysis_prediction", "dashboard")>>
        \o [i \in 1..Len(items) |-> ItemElement(items[i])]
        \o <<El("submit_button", "dashboard")>>

\* what a farmer run without exception displays, from the selections, the form
\* values, the dataset and the predictor's result of that run
FarmerPage ==
    Title \o ModelInfo \o FarmerHeader \o FarmerFormHead
    \o FarmerFormBody(selected_crop, CropConditionsTable[selected_crop])
    \o (IF submitted
        THEN <<[kind |-> "prediction", section |-> "prediction",
                crop |-> selected_crop, value |-> prediction]>>
             \o RecommendationsHead \o OverallAssessment(prediction, farmer_df.y_mean)
             \o Recommendations(form, selected_crop, CropConditionsTable[selected_crop])
        ELSE <<>>)

\* the same for a market run
MarketPage ==
    LET model_df == MarketModelDf(market_df)
    IN  Title \o ModelInfo \o MarketHeader \o MarketFormPage(market_df)
        \o (IF submitted
            THEN <<[kind |-> "prediction", section |-> "prediction", value |-> prediction]>>
                 \o MarketAnalysis(prediction, model_df[Len(model_df)].mean, sliders,
                                   MarketFeatures(model_df))
            ELSE <<>>)

\* C12: what a finished render displays is a function of that render's own page,
\* crop, submission flag and form values (given the datasets and the predictor's
\* result); nothing of an earlier render of the session enters it, so two renders
\* with the same selections and inputs show the same advisory sections.
C12_DisplayDependsOnCurrentInputs ==
    (pc = "idle" /\ exc = NoException) =>
        out = IF page = "Farmer Advisor" THEN FarmerPage ELSE MarketPage

\* a submission for Wheat, after the first page load (Rice) and a crop selection
C12_Witness ==
    /\ FarmerSubmissionRendered
    /\ selected_crop = "Wheat"
    /\ Fired("high_temperature") /\ Fired("alkaline_soil")
    /\ ~Fired("rainfall_insufficient")
    /\ out = FarmerPage

\* a submitted Market Researcher run that reached the end of the script
MarketSubmissionRendered ==
    pc = "idle" /\ page = "Market Researcher" /\ submitted /\ exc = NoException

AdvisoryElements == SelectSeq(out, LAMBDA e : e.section \in Range(AdvisoryOrder))

\* C13 as stated: the predictor's scalar enters the display only through its
\* comparison with the target mean, so two predictions on the same side of the
\* mean give the same assessment and the same market analysis.
C13_OnlyComparison ==
    /\ FarmerSubmissionRendered =>
           \A p1, p2 \in Predictions(y_mean) :
               ((p1 > y_mean) <=> (p2 > y_mean)) =>
                   OverallAssessment(p1, y_mean) = OverallAssessment(p2, y_mean)
    /\ MarketSubmissionRendered =>
           \A p1, p2 \in Predictions(y_mean) :
               ((p1 < y_mean) <=> (p2 < y_mean)) =>
                   MarketAnalysis(p1, y_mean, sliders, X) = MarketAnalysis(p2, y_mean, sliders, X)

\* C13 amended: exactly one message variant is shown, selected by comparing the
\* prediction with the target mean: the farmer assessment reads "excellent
\* growing conditions" when the prediction is above the mean and "some areas
\* that need attention" otherwise; the market banner is the warning when the
\* prediction is below the mean and the success otherwise.  Which advisory
\* sections and risk alerts fire does not depend on the prediction.  The scalar
\* is also displayed as a number, and the market banner shows it as a
\* percentage of the mean (prediction / mean * 100).
C13_VariantByComparison ==
    /\ FarmerSubmissionRendered =>
           /\ Occurrences("overall_assessment") = 1
           /\ \A i \in 1..Len(out) :
                  out[i].kind = "overall_assessment" =>
                      /\ out[i].value = prediction
                      /\ out[i].variant = IF prediction > farmer_df.y_mean
                                          THEN "excellent growing conditions"
                                          ELSE "some areas that need attention"
           /\ AdvisoryElements
                  = Recommendations(form, selected_crop, CROP_CONDITIONS[selected_crop])
    /\ MarketSubmissionRendered =>
           /\ Occurrences("market_performance") = 1
           /\ \A i \in 1..Len(out) :
                  out[i].kind = "market_performance" =>
                      /\ out[i].variant = IF prediction < y_mean THEN "warning" ELSE "success"
                      /\ out[i].market_score = <<prediction * 100, y_mean>>
           /\ \A g \in {"price", "market", "economic"} :
                  Fired(g \o "_risk") <=> RiskFires(sliders, X, g)

\* a prediction equal to the mean: the farmer assessment is the second variant
C13_Witness ==
    /\ FarmerSubmissionRendered
    /\ prediction = y_mean
    /\ \E i \in 1..Len(out) :
           /\ out[i].kind = "overall_assessment"
           /\ out[i].variant = "some areas that need attention"

\* C14: the acidity block recommends 2000 kg/ha of lime for Rice and Corn and
\* 1500 kg/ha for Wheat and Soybean; the alkaline block recommends 300 kg/ha of
\* sulfur for Rice and Soybean and 400 kg/ha for Wheat and Corn; the crop alone
\* chooses the dose.
C14_LimeAndSulfurDose ==
    FarmerSubmissionRendered =>
        \A i \in 1..Len(out) :
            /\ out[i].kind = "soil_acidity" =>
                   out[i].shows.lime_kg_ha
                       = IF selected_crop \in {"Rice", "Corn"} THEN 2000 ELSE 1500
            /\ out[i].kind = "alkaline_soil" =>
                   out[i].shows.sulfur_kg_ha
                       = IF selected_crop \in {"Rice", "Soybean"} THEN 300 ELSE 400

\* Wheat at pH 7.50: the alkaline block with 400 kg/ha of sulfur
C14_Witness ==
    /\ FarmerSubmissionRendered
    /\ selected_crop = "Wheat"
    /\ form.soil_ph = 750
    /\ \E i \in 1..Len(out) :
           out[i].kind = "alkaline_soil" /\ out[i].shows.sulfur_kg_ha = 400

\* C15: the insufficient-rainfall block says "emitters every 30cm" exactly when
\* the crop is Rice or Wheat and "emitters every 45cm" for Corn and Soybean.
C15_EmitterSpacing ==
    FarmerSubmissionRendered =>
        \A i \in 1..Len(out) :
            out[i].kind = "rainfall_insufficient" =>
                out[i].shows.emitters = IF selected_crop \in {"Rice", "Wheat"}
                                        THEN "emitters every 30cm"
                                        ELSE "emitters every 45cm"

\* Corn with 400 mm against its range of 500 to 800 mm: 45cm
C15_Witness ==
    /\ FarmerSubmissionRendered
    /\ selected_crop = "Corn"
    /\ form.rainfall = 40000
    /\ \E i \in 1..Len(out) :
           /\ out[i].kind = "rainfall_insufficient"
           /\ out[i].shows.emitters = "emitters every 45cm"

\* the numbers a block's text interpolates
ShownNumbers(el) == {el.shows[f] : f \in DOMAIN el.shows \ {"selected_crop"}}

\* C16 as stated: when the low-temperature block fires (Rice at 15 degrees), its
\* text carries both the min and the max of the crop's temperature range
\* ("20 to 35").
C16_BlockShowsRange ==
    FarmerSubmissionRendered =>
        \A i \in 1..Len(out) :
            out[i].kind = "low_temperature" =>
                /\ CROP_CONDITIONS[selected_crop].temp_range[1] \in ShownNumbers(out[i])
                /\ CROP_CONDITIONS[selected_crop].temp_range[2] \in ShownNumbers(out[i])

\* C16 amended: when the low-temperature block fires, its text gives the
\* submitted temperature, the crop and the min of the crop's temperature range
\* (the soil temperature to wait for), not the max; the whole range, min to
\* max, is shown by the optimal-conditions box rendered above the form in the
\* same render.
C16_BlockShowsMin ==
    FarmerSubmissionRendered =>
        \A i \in 1..Len(out) :
            out[i].kind = "low_temperature" =>
                /\ out[i].shows.temp = form.temp
                /\ out[i].shows.selected_crop = selected_crop
                /\ out[i].shows.temp_range_min = CROP_CONDITIONS[selected_crop].temp_range[1]
                /\ CROP_CONDITIONS[selected_crop].temp_range[2] \notin ShownNumbers(out[i])
                /\ \E j \in 1..(i - 1) :
                       /\ out[j].kind = "optimal_conditions"
                       /\ out[j].temp_range = CROP_CONDITIONS[selected_crop].temp_range

\* Rice at 15 degrees: the block fires and names 20 degrees
C16_Witness ==
    /\ FarmerSubmissionRendered
    /\ selected_crop = "Rice"
    /\ form.temp = 1500
    /\ \E i \in 1..Len(out) :
           out[i].kind = "low_temperature" /\ out[i].shows.temp_range_min = 2000

\* a market run rendered its whole form
MarketFormRendered ==
    /\ pc = "idle" /\ page = "Market Researcher" /\ exc = NoException

SlidersOf(name) == {i \in 1..Len(out) : out[i].kind = "slider" /\ out[i].col = name}

\* C17: on the market page every feature column gets exactly one slider and
\* belongs to exactly one of the four display groups: no column is in two
\* groups and none is left without a slider.
C17_OneSliderPerColumn ==
    MarketFormRendered =>
        \A k \in 1..Len(X) : Cardinality(SlidersOf(X[k].name)) = 1

\* the market form has been set up for the feature columns X
MarketFormReached == page = "Market Researcher" /\ Fired("market_analysis_prediction")

\* C18: for every feature column the slider's lower bound is max(0, mean - 3 std)
\* and its upper bound is mean + 3 std, and both bounds are >= 0.
C18_BoundsNonNegative ==
    MarketFormReached =>
        \A k \in 1..Len(X) :
            /\ min_val(X[k]) >= 0
            /\ min_val(X[k]) >= X[k].mean - 3 * X[k].std
            /\ min_val(X[k]) \in {0, X[k].mean - 3 * X[k].std}
            /\ max_val(X[k]) = X[k].mean + 3 * X[k].std
            /\ max_val(X[k]) >= 0

\* C19: a render shows a prediction, an assessment, advisory sections or a
\* market analysis only when the form was submitted in that render; a page
\* load, a crop selection or a page switch shows none of them; and within a
\* render the prediction comes before every one of the others.
C19_OutputOnlyOnSubmission ==
    /\ ~submitted => Sections(out) \cap ResultSections = {}
    /\ Occurrences("prediction") <= 1
    /\ \A j \in 1..Len(out) :
           out[j].section \in ResultSections \ {"prediction"} =>
               \E i \in 1..(j - 1) : out[i].kind = "prediction"

\* the render of a crop selection: the form for Wheat and no prediction
C19_Witness ==
    /\ pc = "idle" /\ exc = NoException
    /\ ~submitted
    /\ selected_crop = "Wheat"
    /\ Fired("optimal_conditions") /\ Fired("submit_button")
    /\ ~Fired("prediction")

\* the four sliders of the claim are at the defaults of the selected crop
DefaultsSubmitted ==
    /\ FarmerSubmissionRendered
    /\ form.temp = 2500
    /\ form.rainfall = CROP_CONDITIONS[selected_crop].rainfall[1]
    /\ form.soil_ph = CROP_CONDITIONS[selected_crop].soil_ph[1]
    /\ form.soil_moisture = CROP_CONDITIONS[selected_crop].soil_moisture[1]

\* C20: for each of the four crops, submitting the form with the defaults
\* (temperature 25.0, rainfall, soil pH and soil moisture at the crop's range
\* min) fires no temperature, soil pH or rainfall block; only the growth-stage
\* and nutrient-management sections are shown.
C20_DefaultsFireNoBlock ==
    DefaultsSubmitted =>
        /\ Sections(out) \cap {"temperature", "soil_ph", "rainfall"} = {}
        /\ Kinds(AdvisoryElements) = {"growth_stage_management", "nutrient_management_guide"}

\* Wheat, whose range max is the default temperature 25.0
C20_Witness ==
    /\ DefaultsSubmitted
    /\ selected_crop = "Wheat"
    /\ form = FormDefaults(CROP_CONDITIONS["Wheat"])
    /\ form.temp = CROP_CONDITIONS["Wheat"].temp_range[2]
    /\ Len(AdvisoryElements) = 2

\* the sliders of a group, and those of them set below their column's mean
GroupSliders(g) == {i \in 1..Len(sliders) : sliders[i].group = g}

BelowMean(g) ==
    {i \in GroupSliders(g) : sliders[i].value < Column(X, sliders[i].col).mean}

RiskGroups == {"price", "market", "economic"}

\* C21: on a rendered market submission each of the three risk alerts (price,
\* market, economic) fires iff strictly more than half of the sliders of its
\* group are set below their column's dataset mean; an alert never fires for a
\* group without columns, and none fires when every slider is at its default.
C21_RiskAlerts ==
    MarketSubmissionRendered =>
        /\ \A g \in RiskGroups :
               /\ Fired(g \o "_risk")
                      <=> 2 * Cardinality(BelowMean(g)) > Cardinality(GroupSliders(g))
               /\ GroupSliders(g) = {} => ~Fired(g \o "_risk")
        /\ sliders = SliderDefaults(Sliders(X)) => "risk" \notin Sections(out)

\* both sliders of the market group below the mean and one of the two of the
\* economic group: the market alert fires, the economic one does not
C21_Witness ==
    /\ MarketSubmissionRendered
    /\ market_df = MarketNumeric
    /\ Cardinality(BelowMean("market")) = 2
    /\ Cardinality(GroupSliders("economic")) = 2
    /\ Cardinality(BelowMean("economic")) = 1
    /\ Fired("market_risk") /\ ~Fired("economic_risk")

\* C22: for every market feature column the slider is well-formed: lower bound
\* <= default (the column mean) <= upper bound, lower bound < upper bound, and
\* the step (upper - lower) / 100 is strictly positive, also for columns with a
\* negative mean and for constant columns.
C22_SliderWellFormed ==
    MarketFormReached =>
        \A k \in 1..Len(X) :
            /\ min_val(X[k]) <= X[k].mean
            /\ X[k].mean <= max_val(X[k])
            /\ min_val(X[k]) < max_val(X[k])
            /\ step(X[k])[1] > 0

\* the market row has been built from the sliders (app.py:730-734)
MarketRowBuilt == page = "Market Researcher" /\ input_data # <<>>

\* the last slider, in the order price, market, economic, other, of a column
LastSlider(name) ==
    CHOOSE i \in 1..Len(sliders) :
        /\ sliders[i].col = name
        /\ \A j \in (i + 1)..Len(sliders) : sliders[j].col # name

\* C23: the row built on a market submission holds a value for every column of
\* X, so selecting X's columns never fails for a missing column; the aligned
\* row has X's columns in X's order, and a column whose name matches several
\* groups takes the value of its slider in the last matching group (price,
\* market, economic).
C23_MarketRowComplete ==
    /\ page = "Market Researcher" => exc # "KeyError"
    /\ MarketRowBuilt =>
           /\ Range(Names(X)) \subseteq Range(Keys(input_data))
           /\ Keys(input_df) = Names(X)
           /\ \A k \in 1..Len(X) :
                  input_df[k][2] = sliders[LastSlider(X[k].name)].value

\* Market_Price_per_ton has a slider in the price group and one in the market
\* group, set differently; the row holds the market group's value
C23_Witness ==
    /\ MarketRowBuilt
    /\ pc = "market_predict"
    /\ market_df = MarketNumeric
    /\ sliders[1].col = Market_Price_per_ton /\ sliders[1].group = "price"
    /\ sliders[2].col = Market_Price_per_ton /\ sliders[2].group = "market"
    /\ sliders[1].value # sliders[2].value
    /\ Value(input_df, Market_Price_per_ton) = sliders[2].value

====
